---- MODULE Spec2Model ----
(***************************************************************************)
(* A model of lib/Junction.js: one Junction instance, the signals it has   *)
(* created, and the static plugin interface Junction.use.                  *)
(*                                                                         *)
(* A JavaScript object-or-null (this._values, this._signals) is a set with *)
(* at most one element: Null is the empty set, Obj(m) holds the mapping m. *)
(* Both mappings are plain objects, so a lookup obj[key] that finds no own  *)
(* entry finds the member of that name that every object inherits from     *)
(* Object.prototype: Keys are names without such a member, ProtoKeys are   *)
(* names with one.                                                         *)
(*                                                                         *)
(* The Signal class is an injected collaborator.  It is modelled as the    *)
(* capability the junction relies on: called with one argument it stores   *)
(* the value and synchronously notifies the subscribed listener, called    *)
(* with none it returns the value; subscribe() keeps one listener;         *)
(* dispose() releases it.  Every signal holds a value of its own.          *)
(***************************************************************************)
EXTENDS Naturals, Sequences, FiniteSets, TLC

VARIABLES
    values,       \* this._values: Null or Obj(mapping key -> value)
    signals,      \* this._signals: Null or Obj(mapping key -> signal reference)
    heap,         \* the signal objects created so far; a reference is an index
    isDisposed,   \* this.isDisposed
    SignalClass,  \* Junction.prototype.Signal: "null" or "Signal"
    setterKind,   \* which function Junction.prototype.setter currently is
    last,         \* the last call made on the junction and how it ended
    setterLog,    \* the calls of this.setter made by the last call, in order
    events,       \* what the last call did to signals, in order
    useLog,       \* the calls of use() made so far, in order
    pluginLog     \* the plugin invocations made so far, in order

storeVars == <<values, signals, heap, isDisposed, SignalClass, setterKind,
               last, setterLog, events>>
useVars == <<useLog, pluginLog>>
vars == <<values, signals, heap, isDisposed, SignalClass, setterKind,
          last, setterLog, events, useLog, pluginLog>>

----------------------------------------------------------------------------
\* Bounds of the model.

\* How many signal objects may be created in one run.
MaxSignals == 3

\* How many entries a mapping passed to set(mapping) may have.
MaxEntries == 2

\* How many calls of use() one run makes.
MaxUse == 3

----------------------------------------------------------------------------
\* Data.

Keys == {"k1", "k2"}

Undefined == "undefined"

Values == {Undefined, "a", "b"}

Null == {}

Obj(m) == {m}

The(o) == CHOOSE m \in o : TRUE

EmptyMap == [k \in {} |-> Undefined]

Put(m, k, v) == [x \in (DOMAIN m) \cup {k} |-> IF x = k THEN v ELSE m[x]]

Delete(m, k) == [x \in (DOMAIN m) \ {k} |-> m[x]]

\* Names of members every object inherits from Object.prototype.  Called as
\* a plain function, constructor (Object) returns for every argument and
\* hasOwnProperty throws a TypeError, its this being undefined.
ProtoKeys == {"constructor", "hasOwnProperty"}

ThrowingProtoKeys == {"hasOwnProperty"}

AllKeys == Keys \cup ProtoKeys

\* The value of an inherited member: a function, equal to no value of Values.
InheritedFunction == "function"

\* The value of an own entry of an object: undefined for a missing key.
Lookup(m, k) == IF k \in DOMAIN m THEN m[k] ELSE Undefined

\* obj[key] with no own entry for key yields the inherited member.
Inherits(m, k) == k \notin DOMAIN m /\ k \in ProtoKeys

\* obj[key]: the own entry, else the inherited member, else undefined.
Property(m, k) == IF Inherits(m, k) THEN InheritedFunction ELSE Lookup(m, k)

NoKey == "none"

NoError == "none"

\* The mappings a caller may pass to set(mapping): own enumerable entries in
\* insertion order, every key at most once.  A mapping may have the name of an
\* inherited member among its keys; the entries of such a mapping all carry
\* the value "a".
RECURSIVE SeqsUpTo(_, _)
SeqsUpTo(S, n) ==
    IF n = 0 THEN {<<>>}
    ELSE LET shorter == SeqsUpTo(S, n - 1)
         IN shorter \cup {Append(s, x) : s \in {t \in shorter : Len(t) = n - 1}, x \in S}

DistinctKeys(s) == \A i, j \in 1..Len(s) : i # j => s[i][1] # s[j][1]

Mappings ==
    {s \in SeqsUpTo(Keys \X Values, MaxEntries) : DistinctKeys(s)}
        \cup {s \in SeqsUpTo(AllKeys \X {"a"}, MaxEntries) : DistinctKeys(s)}

----------------------------------------------------------------------------
\* The setter hook.

SetterKinds == {"identity", "stub", "next"}

\* A normalization whose result it changes again: a -> b -> a.
NextValue(v) == IF v = "a" THEN "b" ELSE IF v = "b" THEN "a" ELSE v

\* Junction.prototype.setter(key, value): the default returns value; a plugin
\* or a test may put another function in its place.
setterHook(kind, key, value) ==
    CASE kind = "identity" -> value
      [] kind = "stub" -> "b"
      [] kind = "next" -> NextValue(value)

----------------------------------------------------------------------------
\* One call on the junction is computed on a record m of the junction's
\* fields, the signal objects, and what the call has done so far:
\*   err        the exception thrown, NoError while none was thrown
\*   ret        the signal reference signal(key) returns (for a direct write,
\*              the signal written), 0 when it returns no signal of the
\*              junction
\*   setterLog  the calls of this.setter, as <<key, value>>
\*   events     the steps taken on signals; "inherited" is the use of an
\*              inherited member in the place of a signal

TypeError == "TypeError"

SignalClassError == "Cannot create signal: You need to configure a Signal-class."

Machine ==
    [values |-> values, signals |-> signals, heap |-> heap,
     isDisposed |-> isDisposed, err |-> NoError, ret |-> 0,
     setterLog |-> <<>>, events |-> <<>>]

Throw(m, e) == [m EXCEPT !.err = e]

Event(type, sig, key) == [type |-> type, sig |-> sig, key |-> key]

Log(m, type, sig, key) == [m EXCEPT !.events = Append(@, Event(type, sig, key))]

\* A call this.setter(key, value); its result is setterHook(setterKind, key, value).
thisSetter(m, key, value) == [m EXCEPT !.setterLog = Append(@, <<key, value>>)]

\* A listener that calls this.setter() and stores nothing.
onSignalChangeDropsValue(m, key, newValue) ==
    thisSetter(Log(m, "listener", 0, key), key, newValue)

\* The listener signal() subscribes: self._values[key] = self.setter(key, newValue).
onSignalChange(m, key, newValue) ==
    LET m1 == thisSetter(Log(m, "listener", 0, key), key, newValue)
    IN IF m1.values = Null
       THEN Throw(m1, TypeError)
       ELSE [m1 EXCEPT !.values = Obj(Put(The(@), key, setterHook(setterKind, key, newValue)))]

\* new this.Signal(): a signal with no value, no listener, not disposed.
NewSignal == [value |-> Undefined, listener |-> NoKey, setter |-> NoKey, disposeCalls |-> 0]

\* signal(value): store the value, then notify the subscribed listener.
signalCall(m, id, value) ==
    LET m1 == Log([m EXCEPT !.heap[id].value = value], "write", id, NoKey)
        l == m.heap[id].listener
    IN IF l = NoKey THEN m1 ELSE onSignalChange(m1, l, value)

\* The call signal(value) where signal is the inherited member found under key.
inheritedCall(m, key) ==
    LET m1 == Log(m, "inherited", 0, key)
    IN IF key \in ThrowingProtoKeys THEN Throw(m1, TypeError) ELSE m1

\* signal.subscribe(listener): the listener writes to the key it closes over.
signalSubscribe(m, id, key) == Log([m EXCEPT !.heap[id].listener = key], "subscribe", id, key)

\* signal.dispose(): release the listener.
signalDispose(m, id) ==
    Log([m EXCEPT !.heap[id].listener = NoKey,
                  !.heap[id].disposeCalls = @ + 1], "dispose", id, NoKey)

\* setter() writing the value mapping even when the key has a signal.
setterBypassesSignal(m, key, value) ==
    IF m.signals = Null \/ m.values = Null
    THEN Throw(m, TypeError)
    ELSE [m EXCEPT !.values = Obj(Put(The(@), key, value))]

\* setter() that writes the value to the key's signal a second time.
setterWritesTwice(m, key, value) ==
    IF m.signals = Null
    THEN Throw(m, TypeError)
    ELSE IF key \in DOMAIN The(m.signals)
         THEN signalCall(signalCall(m, The(m.signals)[key], value), The(m.signals)[key], value)
         ELSE IF Inherits(The(m.signals), key)
              THEN inheritedCall(m, key)
              ELSE IF m.values = Null
                   THEN Throw(m, TypeError)
                   ELSE [m EXCEPT !.values = Obj(Put(The(@), key, value))]

\* function setter(junction, key, value)
setter(m, key, value) ==
    IF m.signals = Null
    THEN Throw(m, TypeError)
    ELSE IF key \in DOMAIN The(m.signals)
         THEN signalCall(m, The(m.signals)[key], value)
         ELSE IF Inherits(The(m.signals), key)
              THEN inheritedCall(m, key)
              ELSE IF m.values = Null
                   THEN Throw(m, TypeError)
                   ELSE [m EXCEPT !.values = Obj(Put(The(@), key, value))]

\* set() handing the given value, not the result of this.setter(), to setter().
setSkipsHook(m, key, value) ==
    setter(thisSetter(m, key, value), key, value)

\* set(key, value): setter(this, key, this.setter(key, value))
set(m, key, value) ==
    setter(thisSetter(m, key, value), key, setterHook(setterKind, key, value))

\* set(obj): the same for every own entry of obj, in its order; a throw ends it.
RECURSIVE setEntries(_, _, _)
setEntries(m, obj, i) ==
    IF i > Len(obj) \/ m.err # NoError
    THEN m
    ELSE setEntries(set(m, obj[i][1], obj[i][2]), obj, i + 1)

\* obj has an own entry named hasOwnProperty, so obj.hasOwnProperty is that
\* entry's value and not the inherited function.
ShadowsHasOwnProperty(obj) == \E i \in 1..Len(obj) : obj[i][1] = "hasOwnProperty"

\* set(obj): for (key in obj) if (obj.hasOwnProperty(key)) ...; the test
\* throws in the first iteration when the entry's value is called.
setMapping(m, obj) ==
    IF ShadowsHasOwnProperty(obj)
    THEN Throw(m, TypeError)
    ELSE setEntries(m, obj, 1)

\* get(key): this._values[key]
get(m, key) == Property(The(m.values), key)

\* get(): a new object with the own entries of this._values; for-in over
\* null runs no iteration.
getAll(m) == IF m.values = Null THEN EmptyMap ELSE The(m.values)

\* for (key in signals) visits the keys in the order they were added: a key is
\* added when its signal is created and never deleted, so that is the order of
\* creation.  resetSignals runs the loop of reset() from the i-th signal on.
RECURSIVE resetSignals(_, _, _)
resetSignals(m, sigs, i) ==
    IF i > Len(m.heap) \/ m.err # NoError
    THEN m
    ELSE IF \E k \in DOMAIN sigs : sigs[k] = i
         THEN resetSignals(signalCall(m, i, Undefined), sigs, i + 1)
         ELSE resetSignals(m, sigs, i + 1)

\* The loop of dispose() from the i-th signal on.
RECURSIVE disposeSignals(_, _, _)
disposeSignals(m, sigs, i) ==
    IF i > Len(m.heap) \/ m.err # NoError
    THEN m
    ELSE IF \E k \in DOMAIN sigs : sigs[k] = i
         THEN disposeSignals(signalDispose(m, i), sigs, i + 1)
         ELSE disposeSignals(m, sigs, i + 1)

\* reset()
reset(m) ==
    LET m1 == [m EXCEPT !.values = Obj(EmptyMap)]
    IN IF m.signals = Null
       THEN m1
       ELSE resetSignals(m1, The(m.signals), 1)

\* remove() deleting the entry before it writes the signal, so that the
\* listener puts the key back.
removeDeletesFirst(m, key) ==
    IF m.signals = Null \/ m.values = Null
    THEN Throw(m, TypeError)
    ELSE LET sigs == The(m.signals)
             m1 == [m EXCEPT !.values = Obj(Delete(The(@), key))]
         IN IF key \in DOMAIN sigs
            THEN signalCall(m1, sigs[key], Undefined)
            ELSE IF Inherits(sigs, key) THEN inheritedCall(m1, key) ELSE m1

\* remove() leaving the entry of a key that has a signal to the listener.
removeKeepsSignalEntry(m, key) ==
    IF m.signals = Null \/ m.values = Null
    THEN Throw(m, TypeError)
    ELSE LET sigs == The(m.signals)
         IN IF key \in DOMAIN sigs
            THEN signalCall(m, sigs[key], Undefined)
            ELSE LET m1 == IF Inherits(sigs, key) THEN inheritedCall(m, key) ELSE m
                 IN IF m1.err # NoError
                    THEN m1
                    ELSE [m1 EXCEPT !.values = Obj(Delete(The(@), key))]

\* remove() that replaces the value mapping by an empty one.
removeDropsAllValues(m, key) ==
    IF m.signals = Null
    THEN Throw(m, TypeError)
    ELSE LET sigs == The(m.signals)
             m1 == IF key \in DOMAIN sigs
                   THEN signalCall(m, sigs[key], Undefined)
                   ELSE IF Inherits(sigs, key) THEN inheritedCall(m, key) ELSE m
         IN IF m1.err # NoError
            THEN m1
            ELSE [m1 EXCEPT !.values = Obj(EmptyMap)]

\* remove() that deletes the entry and leaves the key's signal alone.
removeSkipsSignal(m, key) ==
    IF m.signals = Null \/ m.values = Null
    THEN Throw(m, TypeError)
    ELSE [m EXCEPT !.values = Obj(Delete(The(@), key))]

\* remove(key)
remove(m, key) ==
    IF m.signals = Null
    THEN Throw(m, TypeError)
    ELSE LET sigs == The(m.signals)
             m1 == IF key \in DOMAIN sigs
                   THEN signalCall(m, sigs[key], Undefined)
                   ELSE IF Inherits(sigs, key) THEN inheritedCall(m, key) ELSE m
         IN IF m1.err # NoError
            THEN m1
            ELSE IF m1.values = Null
                 THEN Throw(m1, TypeError)
                 ELSE [m1 EXCEPT !.values = Obj(Delete(The(@), key))]

\* signal() that looks up no signal it created before.
signalNotMemoized(m, key) ==
    IF m.signals = Null
    THEN Throw(m, TypeError)
    ELSE IF SignalClass # "Signal"
         THEN Throw(m, SignalClassError)
         ELSE LET id == Len(m.heap) + 1
                  m1 == Log([m EXCEPT !.heap = Append(@, NewSignal)], "new", id, key)
                  m2 == [m1 EXCEPT !.heap[id].setter = key]
                  m3 == IF key \in DOMAIN The(m2.values)
                        THEN signalCall(m2, id, The(m2.values)[key])
                        ELSE m2
                  m4 == signalSubscribe(m3, id, key)
              IN [m4 EXCEPT !.signals = Obj(Put(The(@), key, id)), !.ret = id]

\* signal() that subscribes the listener before it writes the key's value.
signalSubscribesFirst(m, key) ==
    IF m.signals = Null
    THEN Throw(m, TypeError)
    ELSE IF key \in DOMAIN The(m.signals)
         THEN [m EXCEPT !.ret = The(m.signals)[key]]
         ELSE IF Inherits(The(m.signals), key)
         THEN Log(m, "inherited", 0, key)
         ELSE IF SignalClass # "Signal"
              THEN Throw(m, SignalClassError)
              ELSE LET id == Len(m.heap) + 1
                       m1 == Log([m EXCEPT !.heap = Append(@, NewSignal)], "new", id, key)
                       m2 == [m1 EXCEPT !.heap[id].setter = key]
                       m3 == signalSubscribe(m2, id, key)
                       m4 == IF key \in DOMAIN The(m3.values)
                             THEN signalCall(m3, id, The(m3.values)[key])
                             ELSE m3
                   IN IF m2.values = Null
                      THEN Throw(m2, TypeError)
                      ELSE [m4 EXCEPT !.signals = Obj(Put(The(@), key, id)), !.ret = id]

\* signal(key)
signal(m, key) ==
    IF m.signals = Null
    THEN Throw(m, TypeError)
    ELSE IF key \in DOMAIN The(m.signals)
         THEN [m EXCEPT !.ret = The(m.signals)[key]]
         ELSE IF Inherits(The(m.signals), key)
         THEN Log(m, "inherited", 0, key)
         ELSE IF SignalClass # "Signal"
              THEN Throw(m, SignalClassError)
              ELSE LET id == Len(m.heap) + 1
                       m1 == Log([m EXCEPT !.heap = Append(@, NewSignal)], "new", id, key)
                       m2 == [m1 EXCEPT !.heap[id].setter = key]
                       m3 == IF key \in DOMAIN The(m2.values)
                             THEN signalCall(m2, id, The(m2.values)[key])
                             ELSE m2
                       m4 == signalSubscribe(m3, id, key)
                   IN IF m2.values = Null
                      THEN Throw(m2, TypeError)
                      ELSE [m4 EXCEPT !.signals = Obj(Put(The(@), key, id)), !.ret = id]

\* dispose() that drops the signals and keeps the values.
disposeKeepsValues(m) ==
    LET m1 == IF m.signals = Null
              THEN m
              ELSE disposeSignals(m, The(m.signals), 1)
    IN [m1 EXCEPT !.signals = Null, !.isDisposed = TRUE]

\* dispose() that keeps the reference to the signals it has disposed.
disposeKeepsSignals(m) ==
    LET m1 == IF m.signals = Null
              THEN m
              ELSE disposeSignals(m, The(m.signals), 1)
    IN [m1 EXCEPT !.values = Null, !.isDisposed = TRUE]

\* dispose()
dispose(m) ==
    LET m1 == IF m.signals = Null
              THEN m
              ELSE disposeSignals(m, The(m.signals), 1)
    IN [m1 EXCEPT !.signals = Null, !.values = Null, !.isDisposed = TRUE]

\* Junction.use(plugin, config): plugin(this, config); return this.
\* plog is the list of plugin invocations made so far.
use(plog, receiver, plugin, config) ==
    Append(plog, [plugin |-> plugin, receiver |-> receiver, config |-> config])

----------------------------------------------------------------------------
\* The state machine.

Receivers == {"Junction", "otherObj"}

Plugins == {"p1", "p2"}

Configs == {"c1", "c2"}

Call(op, key, val, obj) ==
    [op |-> op, key |-> key, val |-> val, obj |-> obj,
     err |-> NoError, ret |-> 0, got |-> Undefined, snap |-> Null]

\* new Junction(): the constructor sets both mappings to empty objects;
\* isDisposed and Signal are read from the prototype.
Init ==
    /\ values = Obj(EmptyMap)
    /\ signals = Obj(EmptyMap)
    /\ heap = <<>>
    /\ isDisposed = FALSE
    /\ SignalClass \in {"null", "Signal"}
    /\ setterKind \in SetterKinds
    /\ last = Call("new", NoKey, Undefined, <<>>)
    /\ setterLog = <<>>
    /\ events = <<>>
    /\ useLog = <<>>
    /\ pluginLog = <<>>

\* The junction after a call that ended as m, made as the call c.
Apply(m, c) ==
    /\ values' = m.values
    /\ signals' = m.signals
    /\ heap' = m.heap
    /\ isDisposed' = m.isDisposed
    /\ setterLog' = m.setterLog
    /\ events' = m.events
    /\ last' = [c EXCEPT !.err = m.err, !.ret = m.ret]
    /\ UNCHANGED <<SignalClass, setterKind, useLog, pluginLog>>

\* junction.set(key, value)
Set(key, value) ==
    /\ Apply(set(Machine, key, value), Call("set", key, value, <<>>))

\* junction.set(obj)
SetMapping(obj) ==
    /\ Apply(setMapping(Machine, obj), Call("setMapping", NoKey, Undefined, obj))

\* junction.get(key)
Get(key) ==
    IF values = Null
    THEN Apply(Throw(Machine, TypeError), Call("get", key, Undefined, <<>>))
    ELSE Apply(Machine, [Call("get", key, Undefined, <<>>) EXCEPT !.got = get(Machine, key)])

\* junction.get()
GetAll ==
    /\ Apply(Machine, [Call("getAll", NoKey, Undefined, <<>>) EXCEPT !.snap = Obj(getAll(Machine))])

\* junction.reset()
Reset ==
    /\ Apply(reset(Machine), Call("reset", NoKey, Undefined, <<>>))

\* junction.remove(key)
Remove(key) ==
    /\ Apply(remove(Machine, key), Call("remove", key, Undefined, <<>>))

\* junction.signal(key)
Signal(key) ==
    /\ Len(heap) < MaxSignals
    /\ Apply(signal(Machine, key), Call("signal", key, Undefined, <<>>))

\* junction.dispose()
Dispose ==
    /\ Apply(dispose(Machine), Call("dispose", NoKey, Undefined, <<>>))

\* sig(value), called by whoever holds a signal the junction returned and
\* has not disposed.
SignalWrite(id, value) ==
    /\ heap[id].disposeCalls = 0
    /\ Apply(signalCall([Machine EXCEPT !.ret = id], id, value), Call("write", NoKey, value, <<>>))

\* Junction.prototype.Signal = c
ConfigureSignal(c) ==
    /\ c # SignalClass
    /\ SignalClass' = c
    /\ last' = Call("configure", NoKey, Undefined, <<>>)
    /\ setterLog' = <<>>
    /\ events' = <<>>
    /\ UNCHANGED <<values, signals, heap, isDisposed, setterKind, useLog, pluginLog>>

\* receiver.use(plugin, config)
Use(receiver, plugin, config) ==
    /\ Len(useLog) < MaxUse
    /\ useLog' = Append(useLog, [plugin |-> plugin, receiver |-> receiver, config |-> config])
    /\ pluginLog' = use(pluginLog, receiver, plugin, config)
    /\ UNCHANGED storeVars

Next ==
    \/ \E key \in AllKeys, value \in Values : Set(key, value)
    \/ \E obj \in Mappings : SetMapping(obj)
    \/ \E key \in AllKeys : Get(key)
    \/ GetAll
    \/ Reset
    \/ \E key \in AllKeys : Remove(key)
    \/ \E key \in AllKeys : Signal(key)
    \/ Dispose
    \/ \E id \in 1..Len(heap), value \in Values : SignalWrite(id, value)
    \/ \E c \in {"null", "Signal"} : ConfigureSignal(c)

UseNext == \E receiver \in Receivers, plugin \in Plugins, config \in Configs : Use(receiver, plugin, config)

\* One junction and the signals it hands out.
Spec == Init /\ [][Next]_vars

\* The static plugin interface.
UseSpec == Init /\ [][UseNext]_vars

----------------------------------------------------------------------------
\* What a caller reads.

\* sig(): the current value of the signal object id.
signalRead(id) == heap[id].value

\* The key has a signal in this._signals.
HasSignal(key) == signals # Null /\ key \in DOMAIN The(signals)

\* The signal reference stored for a key that has one.
SignalOf(key) == The(signals)[key]

\* The key is a key of the snapshot get() returns.
InSnapshot(key) == key \in DOMAIN getAll(Machine)

\* The last call returned without throwing.
Returned(op) == last.op = op /\ last.err = NoError

----------------------------------------------------------------------------
\* C1: with the default setter, in every state before dispose(), every key
\* that has a signal reads the same through get(key) and through its signal.
C1_SignalInSync ==
    (setterKind = "identity" /\ ~isDisposed) =>
        \A key \in Keys :
            HasSignal(key) => get(Machine, key) = signalRead(SignalOf(key))

\* A signal written directly with a value, which get(key) then returns.
C1_Witness ==
    /\ setterKind = "identity"
    /\ Returned("write")
    /\ last.val = "a"
    /\ \E key \in Keys :
        /\ HasSignal(key)
        /\ SignalOf(key) = last.ret
        /\ get(Machine, key) = "a"
        /\ signalRead(last.ret) = "a"

\* C2: for every setter hook and every key, plain or with a signal, after
\* set(key, value) get(key) is the hook's result for (key, value).  Stated
\* for the keys that shadow no inherited member (those are C14's).
C2_SetStoresHookResult ==
    (Returned("set") /\ last.key \in Keys) =>
        get(Machine, last.key) = setterHook(setterKind, last.key, last.val)

\* C3: one call set(key, value) calls the setter hook exactly once, also when
\* the key has a signal.
C3_SetterCalledOnce ==
    Returned("set") => setterLog = <<<<last.key, last.val>>>>

----------------------------------------------------------------------------
\* The invocations of a plugin by use() on one receiver, in order.
Invocations(receiver, plugin) ==
    SelectSeq(pluginLog, LAMBDA e : e.receiver = receiver /\ e.plugin = plugin)

\* The calls use(plugin, config) made on one receiver, in order.
UseCalls(receiver, plugin) ==
    SelectSeq(useLog, LAMBDA e : e.receiver = receiver /\ e.plugin = plugin)

\* C4: after any sequence of use() calls on a receiver, every plugin used on
\* it has been invoked exactly once, with (receiver, config) of its first use.
C4_PluginAppliedOnce ==
    \A receiver \in Receivers, plugin \in Plugins :
        UseCalls(receiver, plugin) # <<>> =>
            Invocations(receiver, plugin) = <<UseCalls(receiver, plugin)[1]>>

\* C5: after reset() on a junction that is not disposed, get() is the empty
\* mapping, also when signals exist.
C5_ResetEmptiesSnapshot ==
    (Returned("reset") /\ ~isDisposed) => getAll(Machine) = EmptyMap

\* The keys the junction knows: those with a value and those with a signal.
KnownKeys(m) == DOMAIN getAll(m) \cup (IF m.signals = Null THEN {} ELSE DOMAIN The(m.signals))

\* remove(key) for every key of ks, one call after the other.
RECURSIVE removeEach(_, _)
removeEach(m, ks) ==
    IF ks = {} \/ m.err # NoError
    THEN m
    ELSE LET key == CHOOSE k \in ks : TRUE
         IN removeEach(remove(m, key), ks \ {key})

\* Two outcomes leave the junction in the same state.
SameState(m1, m2) ==
    /\ m1.values = m2.values
    /\ m1.signals = m2.signals
    /\ m1.heap = m2.heap
    /\ m1.isDisposed = m2.isDisposed

\* C6: from every state of a junction that is not disposed, reset() and
\* remove(key) for every known key leave the same snapshot, signals and
\* signal values.
C6_ResetIsRemoveAll ==
    ~isDisposed => SameState(reset(Machine), removeEach(Machine, KnownKeys(Machine)))

\* C7: remove(key) takes the key out of the snapshot, with or without a
\* signal for it, and every other key keeps its entry.
C7_RemoveDeletesKey ==
    [][(last'.op = "remove" /\ last'.err = NoError) =>
          /\ last'.key \notin DOMAIN getAll(Machine)'
          /\ \A other \in Keys \ {last'.key} :
                /\ (other \in DOMAIN getAll(Machine)') = (other \in DOMAIN getAll(Machine))
                /\ Lookup(getAll(Machine)', other) = Lookup(getAll(Machine), other)]_vars

\* remove(key) of a key that had a value and a signal, next to another key
\* that has a value.
C7_Witness ==
    /\ Returned("remove")
    /\ HasSignal(last.key)
    /\ ~InSnapshot(last.key)
    /\ Len(events) = 2
    /\ \E other \in Keys \ {last.key} : InSnapshot(other) /\ get(Machine, other) = "a"

----------------------------------------------------------------------------
\* The signal values two outcomes leave, signal by signal.
SameSignalValues(m1, m2) ==
    /\ Len(m1.heap) = Len(m2.heap)
    /\ \A id \in 1..Len(m1.heap) : m1.heap[id].value = m2.heap[id].value

\* C8 as stated: for a key with a signal, remove(key) keeps the entry with the
\* value undefined, so that remove(key) and set(key, undefined) leave the
\* same snapshot and the same signal value.
C8_RemoveIsSetUndefined ==
    (setterKind = "identity" /\ ~isDisposed) =>
        \A key \in Keys :
            HasSignal(key) =>
                /\ getAll(remove(Machine, key)) = getAll(set(Machine, key, Undefined))
                /\ SameSignalValues(remove(Machine, key), set(Machine, key, Undefined))

\* C8 as amended: for a key with a signal, remove(key) writes undefined to the
\* signal and deletes the entry.  With the default setter remove(key) and
\* set(key, undefined) leave the same signal values, undefined for get(key)
\* and the same entries of all other keys, and remove(key) leaves the key
\* out of the snapshot.
C8_RemoveDeletesSetKeeps ==
    (setterKind = "identity" /\ ~isDisposed) =>
        \A key \in Keys :
            HasSignal(key) =>
                LET r == remove(Machine, key)
                    w == set(Machine, key, Undefined)
                IN /\ r.err = NoError /\ w.err = NoError
                   /\ key \notin DOMAIN getAll(r)
                   /\ get(r, key) = Undefined /\ get(w, key) = Undefined
                   /\ r.heap[SignalOf(key)].value = Undefined
                   /\ SameSignalValues(r, w)
                   /\ r.signals = w.signals
                   /\ \A other \in Keys \ {key} :
                        /\ (other \in DOMAIN getAll(r)) = (other \in DOMAIN getAll(w))
                        /\ get(r, other) = get(w, other)

\* remove(key) has just acted on a key whose signal held a value: the signal
\* reads undefined and the key is gone from the snapshot.
C8_Witness ==
    /\ setterKind = "identity"
    /\ Returned("remove")
    /\ HasSignal(last.key)
    /\ signalRead(SignalOf(last.key)) = Undefined
    /\ ~InSnapshot(last.key)
    /\ setterLog = <<<<last.key, Undefined>>>>

\* C9: before dispose(), signal(key) creates a signal only for a key that has
\* none, returns the stored signal for a key that has one, and no call takes
\* a signal away from its key or puts another in its place.
C9_SignalMemoized ==
    [][~isDisposed' =>
          /\ \A key \in Keys :
                HasSignal(key) => (HasSignal(key)' /\ SignalOf(key)' = SignalOf(key))
          /\ Len(heap') >= Len(heap)
          /\ Len(heap') > Len(heap) =>
                /\ last'.op = "signal"
                /\ ~HasSignal(last'.key)
                /\ Len(heap') = Len(heap) + 1
                /\ last'.ret = Len(heap')
          /\ (last'.op = "signal" /\ last'.err = NoError /\ HasSignal(last'.key)) =>
                /\ last'.ret = SignalOf(last'.key)
                /\ heap' = heap]_vars

\* signal(key) has just returned the signal it created earlier, after the key
\* was removed in between.
C9_Witness ==
    /\ Returned("signal")
    /\ events = <<>>
    /\ last.ret = 1
    /\ Len(heap) = 2
    /\ HasSignal(last.key)
    /\ SignalOf(last.key) = 1
    /\ ~InSnapshot(last.key)

\* The number of events of one type on one signal in the last call.
EventCount(type, id) ==
    Cardinality({i \in 1..Len(events) : events[i].type = type /\ events[i].sig = id})

\* C10: dispose() on a junction that is not disposed calls dispose() exactly
\* once on every signal the junction created and does nothing else to a
\* signal; right after it isDisposed is true and both mappings are null.
C10_DisposeReleasesAll ==
    [][(last'.op = "dispose" /\ ~isDisposed) =>
          /\ last'.err = NoError
          /\ Len(heap') = Len(heap)
          /\ \A id \in 1..Len(heap) :
                /\ heap'[id].disposeCalls = heap[id].disposeCalls + 1
                /\ heap'[id].disposeCalls = 1
          /\ Len(events') = Len(heap)
          /\ \A i \in 1..Len(events') : events'[i].type = "dispose"
          /\ isDisposed' = TRUE
          /\ values' = Null
          /\ signals' = Null]_vars

\* dispose() has just acted on a junction with two signals and a plain value.
C10_Witness ==
    /\ Returned("dispose")
    /\ isDisposed
    /\ Len(heap) = 2
    /\ EventCount("dispose", 1) = 1
    /\ EventCount("dispose", 2) = 1
    /\ values = Null
    /\ signals = Null

----------------------------------------------------------------------------
\* C11: dispose() throws neither on a junction without signals nor on a
\* junction that is already disposed, and in the whole life of the junction
\* dispose() is called at most once on any signal.
C11_DisposeIdempotent ==
    /\ last.op = "dispose" => last.err = NoError
    /\ \A id \in 1..Len(heap) : heap[id].disposeCalls <= 1

\* dispose() has just returned on a junction that was disposed before: it
\* has signals, each disposed once, and this call touched none of them.
C11_Witness ==
    /\ Returned("dispose")
    /\ isDisposed
    /\ events = <<>>
    /\ Len(heap) = 2
    /\ \A id \in 1..Len(heap) : heap[id].disposeCalls = 1

\* The calls that change a junction.
MutatingCall(c) ==
    \/ c.op \in {"set", "remove", "reset", "signal"}
    \/ c.op = "setMapping" /\ c.obj # <<>>

\* C12: on a disposed junction every mutating call (set(key, value), set(obj)
\* with entries, remove(key), reset(), signal(key)) throws and leaves the
\* disposed state as it is.
C12_DisposedRejectsMutation ==
    [][(isDisposed /\ MutatingCall(last')) =>
          /\ last'.err # NoError
          /\ values' = values
          /\ signals' = signals
          /\ heap' = heap
          /\ isDisposed' = isDisposed]_vars

----------------------------------------------------------------------------
\* signal(key) for a key of ks that has no signal, on a junction that is not
\* disposed: without a Signal class it throws the error that asks for one and
\* changes nothing; with one it returns a new signal, registered for the key
\* and holding the key's current value.
SignalCreation(ks) ==
    (~isDisposed /\ last'.op = "signal" /\ last'.key \in ks /\ ~HasSignal(last'.key)) =>
        IF SignalClass # "Signal"
        THEN /\ last'.err = SignalClassError
             /\ values' = values
             /\ signals' = signals
             /\ heap' = heap
        ELSE /\ last'.err = NoError
             /\ last'.ret = Len(heap) + 1
             /\ last'.key \in DOMAIN The(signals')
             /\ The(signals')[last'.key] = last'.ret
             /\ heap'[last'.ret].value = Lookup(getAll(Machine), last'.key)
             /\ values' = values

\* C13: signal(key) on a key without a signal throws the error asking for a
\* Signal class whenever none is configured, creates and registers nothing
\* and leaves values and signals as they are; once a class is configured
\* signal(key) succeeds and the signal holds the key's current value.
C13_SignalNeedsClass == [][SignalCreation(AllKeys)]_vars

\* C13 for the keys that shadow no inherited member.
C13_OnOwnKeys == [][SignalCreation(Keys)]_vars

\* C14: with the default setter and no signal for the key, after
\* set(key, value) get(key) is value.
C14_SetThenGet ==
    (setterKind = "identity" /\ Returned("set") /\ ~HasSignal(last.key)) =>
        get(Machine, last.key) = last.val

\* C14 for the keys that shadow no inherited member.
C14_OnOwnKeys ==
    (setterKind = "identity" /\ Returned("set") /\ ~HasSignal(last.key) /\ last.key \in Keys) =>
        get(Machine, last.key) = last.val

\* The first signal(key) of a key of ks returns a signal that reads the
\* key's plain value, undefined if it has none, and get(key) is as before.
Promotion(ks) ==
    (last'.op = "signal" /\ last'.err = NoError /\ last'.key \in ks /\ ~HasSignal(last'.key)) =>
        /\ last'.ret >= 1
        /\ last'.ret <= Len(heap')
        /\ heap'[last'.ret].value = Lookup(getAll(Machine), last'.key)
        /\ Property(The(values'), last'.key) = get(Machine, last'.key)
        /\ values' = values

\* C15: promoting a key preserves its value: the first signal(key) returns a
\* signal reading the plain value the key holds, with get(key) unchanged, and
\* reading undefined if the key was never set or was removed.
C15_PromotionKeepsValue == [][Promotion(AllKeys)]_vars

\* C15 for the keys that shadow no inherited member.
C15_OnOwnKeys == [][Promotion(Keys)]_vars

\* C16: with the default setter, after a direct write sig(value) to a signal
\* the junction created for a key, get(key) is that value and the key is in
\* the snapshot, whether or not the key was ever set through the junction.
C16_DirectWriteUpdatesStore ==
    (setterKind = "identity" /\ Returned("write")) =>
        LET key == heap[last.ret].listener
        IN /\ HasSignal(key)
           /\ SignalOf(key) = last.ret
           /\ signalRead(last.ret) = last.val
           /\ InSnapshot(key)
           /\ get(Machine, key) = last.val

\* A direct write of "a" to the signal of a key that is the only key of the
\* snapshot, where the only setter call is the listener's.
C16_Witness ==
    /\ setterKind = "identity"
    /\ Returned("write")
    /\ last.val = "a"
    /\ setterLog = <<<<heap[last.ret].listener, "a">>>>
    /\ getAll(Machine) = Put(EmptyMap, heap[last.ret].listener, "a")

\* C17: set(key, value) on a key that has a signal writes to that signal:
\* afterwards the signal holds the setter hook's result for (key, value),
\* which is value under the default setter, whatever hook is installed.
C17_SetRoutesThroughSignal ==
    (Returned("set") /\ HasSignal(last.key)) =>
        /\ events # <<>>
        /\ events[1] = Event("write", SignalOf(last.key), NoKey)
        /\ signalRead(SignalOf(last.key)) = setterHook(setterKind, last.key, last.val)

\* set(key, "a") on a key with a signal under a hook that turns "a" into "b".
C17_Witness ==
    /\ setterKind = "next"
    /\ Returned("set")
    /\ HasSignal(last.key)
    /\ last.val = "a"
    /\ signalRead(SignalOf(last.key)) = "b"

\* C18: remove(key) on a key that has a signal leaves the signal reading
\* undefined and get(key) undefined, and the signal stays the key's signal.
C18_RemoveClearsSignal ==
    [][(last'.op = "remove" /\ last'.err = NoError /\ HasSignal(last'.key)) =>
          /\ signals' = signals
          /\ Len(heap') = Len(heap)
          /\ heap'[SignalOf(last'.key)].value = Undefined
          /\ Property(The(values'), last'.key) = Undefined]_vars

\* remove(key) of a key whose signal held "a", under a hook that stores "b"
\* for every value the listener is given.
C18_Witness ==
    /\ setterKind = "stub"
    /\ Returned("remove")
    /\ HasSignal(last.key)
    /\ signalRead(SignalOf(last.key)) = Undefined
    /\ get(Machine, last.key) = Undefined
    /\ setterLog = <<<<last.key, Undefined>>>>
    /\ \E other \in Keys \ {last.key} : HasSignal(other) /\ signalRead(SignalOf(other)) = "a"

\* remove(key) of a key of ks that has neither a value nor a signal throws
\* nothing and changes nothing.
RemoveUnknown(ks) ==
    (~isDisposed /\ last'.op = "remove" /\ last'.key \in ks
       /\ ~HasSignal(last'.key) /\ ~InSnapshot(last'.key)) =>
        /\ last'.err = NoError
        /\ values' = values
        /\ signals' = signals
        /\ heap' = heap

\* C19: remove(key) for a key that has neither a value nor a signal throws no
\* error and changes nothing: the snapshot, the signals and the signal values
\* stay as they are.
C19_RemoveUnknownIsNoOp == [][RemoveUnknown(AllKeys)]_vars

\* C19 for the keys that shadow no inherited member.
C19_OnOwnKeys == [][RemoveUnknown(Keys)]_vars

\* After reset() under a setter hook of hooks, get(key) is undefined for every
\* key that had a value or a signal, every signal reads undefined, and every
\* signal is still the signal of its key.
ResetClears(hooks) ==
    (~isDisposed /\ last'.op = "reset" /\ setterKind \in hooks) =>
        /\ last'.err = NoError
        /\ \A key \in KnownKeys(Machine) : Property(The(values'), key) = Undefined
        /\ signals' = signals
        /\ Len(heap') = Len(heap)
        /\ \A id \in 1..Len(heap) : heap'[id].value = Undefined

\* C20: after reset() every key that had a value or a signal reads as
\* absent: get(key) is undefined, every signal reads undefined, and every
\* signal created before is still registered under its key.
C20_ResetClearsEveryKey == [][ResetClears(SetterKinds)]_vars

\* C20 under the default setter.
C20_WithDefaultSetter == [][ResetClears({"identity"})]_vars

\* The calls set(obj[i][1], obj[i][2]) a caller makes one after the other for
\* the entries of obj from the i-th on; the first that throws ends them.
RECURSIVE singleSets(_, _, _)
singleSets(m, obj, i) ==
    IF i > Len(obj) \/ m.err # NoError
    THEN m
    ELSE singleSets(set(m, obj[i][1], obj[i][2]), obj, i + 1)

MappingKeys(obj) == {obj[i][1] : i \in 1..Len(obj)}

\* set(obj) with keys of ks ends in the state the single calls end in,
\* throwing what they throw.
SameAsSingleSets(ks) ==
    (last'.op = "setMapping" /\ MappingKeys(last'.obj) \subseteq ks) =>
        LET r == singleSets(Machine, last'.obj, 1)
        IN /\ values' = r.values
           /\ signals' = r.signals
           /\ heap' = r.heap
           /\ isDisposed' = r.isDisposed
           /\ last'.err = r.err

\* set(obj) that returns has called the setter hook once per entry of obj, in
\* the order of obj, with the entry's key and value.
HookOncePerEntry ==
    (last'.op = "setMapping" /\ last'.err = NoError) => setterLog' = last'.obj

\* C21: set(obj) is the sequence of calls set(key, obj[key]) over the own
\* entries of obj in their order: it ends in the same state, and the setter
\* hook is called once per entry, in that order, with the entry's key and value.
C21_SetMappingIsSequence == [][SameAsSingleSets(AllKeys) /\ HookOncePerEntry]_vars

\* C21 without the count of setter hook calls, for mappings whose keys shadow
\* no inherited member.
C21_SameStateOnOwnKeys == [][SameAsSingleSets(Keys)]_vars

\* The mapping map with the entries of obj from the i-th on written over it,
\* a later entry winning over an earlier one with the same key.
RECURSIVE Merge(_, _, _)
Merge(map, obj, i) ==
    IF i > Len(obj) THEN map ELSE Merge(Put(map, obj[i][1], obj[i][2]), obj, i + 1)

\* With the default setter and no signals, set(obj) with keys of ks returns
\* and turns the snapshot into its merge with obj.
MergesIntoSnapshot(ks) ==
    (/\ setterKind = "identity"
     /\ ~isDisposed
     /\ signals = Obj(EmptyMap)
     /\ last'.op = "setMapping"
     /\ MappingKeys(last'.obj) \subseteq ks) =>
        /\ last'.err = NoError
        /\ getAll(Machine)' = Merge(getAll(Machine), last'.obj, 1)

\* C22: with the default setter and no signals, after any sequence of
\* set(obj) calls get() is the key-wise latest-wins merge of the mappings:
\* every set(obj) merges obj into the snapshot.
C22_SnapshotIsMerge == [][MergesIntoSnapshot(AllKeys)]_vars

\* C22 for mappings whose keys shadow no inherited member.
C22_OnOwnKeys == [][MergesIntoSnapshot(Keys)]_vars

\* On a junction that is not disposed get() and get(key), for key of ks,
\* throw nothing and change neither values nor signals nor signal values;
\* get() right after construction returns the empty mapping, and get(key)
\* returns undefined for a key that has no entry.
ReadOnly(ks) ==
    (~isDisposed /\ last'.op \in {"get", "getAll"} /\ last'.key \in ks \cup {NoKey}) =>
        /\ last'.err = NoError
        /\ values' = values
        /\ signals' = signals
        /\ heap' = heap
        /\ isDisposed' = isDisposed
        /\ (last'.op = "getAll" /\ last.op = "new") => last'.snap = Obj(EmptyMap)
        /\ (last'.op = "get" /\ ~InSnapshot(last'.key)) => last'.got = Undefined

\* C23: on a junction that is not disposed reading never throws and never
\* changes anything: get() of a new junction is the empty mapping, get(key)
\* of a key never set, or removed, is undefined, and neither changes values,
\* signals or signal values.
C23_ReadingIsPure == [][ReadOnly(AllKeys)]_vars

\* C23 for the keys that shadow no inherited member.
C23_OnOwnKeys == [][ReadOnly(Keys)]_vars

\* The events of one signal(key) call that creates a signal: the signal is
\* made, written at most once, and subscribed to last.
CreationOrder(ev) ==
    /\ Len(ev) \in {2, 3}
    /\ ev[1].type = "new"
    /\ ev[Len(ev)].type = "subscribe"
    /\ Len(ev) = 3 => ev[2].type = "write"

\* C24: signal(key) creates the signal, writes the key's value to it, and
\* only then subscribes the listener: the call never runs the listener, never
\* calls the setter hook and leaves the snapshot as it is; a key never set is
\* not added to it.
C24_SeedBeforeSubscribe ==
    [][last'.op = "signal" =>
          /\ setterLog' = <<>>
          /\ \A i \in 1..Len(events') : events'[i].type # "listener"
          /\ values' = values
          /\ Len(heap') > Len(heap) => CreationOrder(events')]_vars

\* signal(key) has created the signal of a key that holds "a" under a hook
\* that turns "a" into "b": the signal was written before it was subscribed to.
C24_Witness ==
    /\ setterKind = "next"
    /\ Returned("signal")
    /\ Len(events) = 3
    /\ events[2] = Event("write", last.ret, NoKey)
    /\ events[3] = Event("subscribe", last.ret, last.key)
    /\ signalRead(last.ret) = "a"
    /\ get(Machine, last.key) = "a"
    /\ setterLog = <<>>

\* C25: once dispose() has run, whatever is called afterwards, isDisposed
\* stays true and _values and _signals stay null.
C25_DisposedIsAbsorbing ==
    [][isDisposed => (isDisposed' /\ values' = Null /\ signals' = Null)]_vars

\* C26: one set(key, value) on a key that has a signal, or one direct write to
\* a signal, makes exactly one write to that signal and runs the listener
\* exactly once; the listener calls the setter hook and stores the result,
\* and neither writes to a signal, nor calls set(), nor creates a signal.
C26_OneWriteOneListener ==
    [][(\/ last'.op = "set" /\ last'.err = NoError /\ HasSignal(last'.key)
        \/ last'.op = "write" /\ last'.err = NoError) =>
          LET id == IF last'.op = "set" THEN SignalOf(last'.key) ELSE last'.ret
              key == heap[id].listener
          IN /\ events' = <<Event("write", id, NoKey), Event("listener", 0, key)>>
             /\ setterLog'[Len(setterLog')] = <<key, heap'[id].value>>
             /\ Len(setterLog') = (IF last'.op = "set" THEN 2 ELSE 1)
             /\ values' = Obj(Put(The(values), key,
                                  setterHook(setterKind, key, heap'[id].value)))
             /\ signals' = signals
             /\ Len(heap') = Len(heap)
             /\ \A other \in 1..Len(heap) : other # id => heap'[other] = heap[other]]_vars

\* set(key, "a") on a key with a signal, next to a second signal, has written
\* once and run the listener once.
C26_Witness ==
    /\ Returned("set")
    /\ HasSignal(last.key)
    /\ last.val = "a"
    /\ Len(heap) = 2
    /\ events = <<Event("write", SignalOf(last.key), NoKey), Event("listener", 0, last.key)>>
    /\ \E other \in Keys \ {last.key} : HasSignal(other) /\ signalRead(SignalOf(other)) = "b"

\* What a caller can see of one key: its entry in the snapshot, what get(key)
\* returns, its signal and that signal's value.
ViewOf(vals, sigs, hp, key) ==
    <<IF vals = Null THEN <<"null">>
      ELSE IF key \in DOMAIN The(vals) THEN <<"own", The(vals)[key]>>
      ELSE <<"none", Property(The(vals), key)>>,
      IF sigs = Null THEN <<"null">>
      ELSE IF key \in DOMAIN The(sigs)
           THEN <<"signal", The(sigs)[key], hp[The(sigs)[key]].value>>
           ELSE <<"none">>>>

\* The key a call is about: the key given, or the key of the signal written.
KeyOfCall(c, hp) == IF c.op = "write" THEN hp[c.ret].listener ELSE c.key

\* C27: set(key, value), remove(key), signal(key) and a direct write to the
\* key's signal leave every other key as it is: its value, its presence in
\* the snapshot, its signal and that signal's value.
C27_SingleKeyCallsAreLocal ==
    [][last'.op \in {"set", "remove", "signal", "write"} =>
          \A other \in AllKeys \ {KeyOfCall(last', heap)} :
              ViewOf(values', signals', heap', other) = ViewOf(values, signals, heap, other)]_vars

\* remove(key) of a key with a value and a signal has left another key its
\* value and its signal's value.
C27_Witness ==
    /\ Returned("remove")
    /\ HasSignal(last.key)
    /\ Len(events) = 2
    /\ \E other \in Keys \ {last.key} :
          /\ HasSignal(other)
          /\ get(Machine, other) = "b"
          /\ signalRead(SignalOf(other)) = "b"

====
